---- MODULE Spec2Model ----
(***************************************************************************)
(* Phaseify, src/app.py: the /timeline handler and its helpers.            *)
(*                                                                         *)
(* A Python dict is a record with a field "keys" (the keys present) next   *)
(* to the values; d.get(k, default) is Get below.  An insertion-ordered    *)
(* dict that the code iterates (all_tracks_info, phases, album_stats) is a *)
(* sequence of entries in insertion order.  A string the code parses or    *)
(* formats (a release date, a phase key) is a sequence of one-character    *)
(* strings; a string the code only copies (an id, a name, a URL) is a      *)
(* TLA+ string.                                                            *)
(***************************************************************************)
EXTENDS Integers, Sequences, FiniteSets, TLC

VARIABLES
    saved_items,          \* what GET me/tracks returns, all pages (line 148)
    top_items,            \* what GET me/top/tracks returns per time_range (159-163)
    gemini_api_key,       \* os.getenv("GEMINI_API_KEY") is set (line 68)
    pc,                   \* position of the handler
    err,                  \* the exception that ended the handler, and where
    recent_saved_tracks,  \* line 151
    relevance_scores,     \* line 165
    all_tracks_info,      \* line 172
    phases,               \* line 187, then sorted_phases (line 204)
    next_phase,           \* index of the for loop of line 206
    used_album_ids,       \* line 199
    chosen_albums,        \* per pass of the loop: the cover and the candidate line 216 took, the id line 217 added
    ai_details,           \* the last call of _get_ai_phase_details (line 229): [call, result]
    final_phases_output   \* line 198, published at line 245

vars == <<saved_items, top_items, gemini_api_key, pc, err, recent_saved_tracks,
          relevance_scores, all_tracks_info, phases, next_phase, used_album_ids,
          chosen_albums, ai_details, final_phases_output>>

(***************************************************************************)
(* Python values                                                           *)
(***************************************************************************)
None == "None"

Get(d, k, default) == IF k \in d.keys THEN d[k] ELSE default

Chars(n) == CASE n = 0 -> "0" [] n = 1 -> "1" [] n = 2 -> "2" [] n = 3 -> "3"
              [] n = 4 -> "4" [] n = 5 -> "5" [] n = 6 -> "6" [] n = 7 -> "7"
              [] n = 8 -> "8" [] n = 9 -> "9"

DigitSet == {"0", "1", "2", "3", "4", "5", "6", "7", "8", "9"}

DigitVal(c) == CHOOSE n \in 0..9 : Chars(n) = c

RECURSIVE Str(_)
\* str(n) / f"{n}" of a Python int
Str(n) == IF n < 0 THEN <<"-">> \o Str(-n)
          ELSE IF n < 10 THEN <<Chars(n)>>
          ELSE Str(n \div 10) \o <<Chars(n % 10)>>

RECURSIVE DigitsValue(_)
DigitsValue(s) == IF s = <<>> THEN 0
                  ELSE 10 * DigitsValue(SubSeq(s, 1, Len(s) - 1)) + DigitVal(s[Len(s)])

IsDigits(s) == s # <<>> /\ \A i \in 1..Len(s) : s[i] \in DigitSet

\* int(s): a value (ok), or ValueError (not ok) for the empty string and for
\* anything but an optional sign and decimal digits
IntOf(s) == IF IsDigits(s) THEN [ok |-> TRUE, val |-> DigitsValue(s)]
            ELSE IF s # <<>> /\ s[1] \in {"-", "+"} /\ IsDigits(Tail(s))
            THEN [ok |-> TRUE,
                  val |-> IF s[1] = "-" THEN -DigitsValue(Tail(s)) ELSE DigitsValue(Tail(s))]
            ELSE [ok |-> FALSE, val |-> 0]

RECURSIVE Split(_, _)
\* s.split(sep) for a one-character separator
Split(s, sep) ==
    IF \A i \in 1..Len(s) : s[i] # sep THEN <<s>>
    ELSE LET k == CHOOSE i \in 1..Len(s) : s[i] = sep /\ \A j \in 1..(i - 1) : s[j] # sep
         IN  <<SubSeq(s, 1, k - 1)>> \o Split(SubSeq(s, k + 1, Len(s)), sep)

\* round(a / n) of Python 3: to the nearest integer, a half to the even one
PyRound(a, n) ==
    LET q == a \div n
        r == a % n
    IN  IF 2 * r < n THEN q
        ELSE IF 2 * r > n THEN q + 1
        ELSE IF q % 2 = 0 THEN q ELSE q + 1

RECURSIVE SumSeq(_)
SumSeq(s) == IF s = <<>> THEN 0 ELSE s[1] + SumSeq(Tail(s))

Min(S) == CHOOSE x \in S : \A y \in S : x <= y

\* the pairs of indices of s
Pairs(s) == (1..Len(s)) \X (1..Len(s))

\* sorted(s, key=...) and sorted(s, key=..., reverse=True): both stable, elements
\* with equal keys keep their input order.  before holds the pairs <<i, j>> of
\* indices with s[i]'s key strictly before s[j]'s in the requested direction.
StableSort(s, before) ==
    LET Rank(i) == Cardinality({j \in 1..Len(s) :
                       \/ <<j, i>> \in before
                       \/ (<<i, j>> \notin before /\ j < i)}) + 1
    IN  [k \in 1..Len(s) |-> s[CHOOSE i \in 1..Len(s) : Rank(i) = k]]

RECURSIVE Reverse(_)
Reverse(s) == IF s = <<>> THEN <<>> ELSE Reverse(Tail(s)) \o <<s[1]>>

\* list(dict.fromkeys(s)): the first occurrence of each element, in order
DedupFirst(s) ==
    LET firsts == SelectSeq([i \in 1..Len(s) |-> i],
                            LAMBDA i : \A j \in 1..(i - 1) : s[j] # s[i])
    IN  [k \in 1..Len(firsts) |-> s[firsts[k]]]

\* s[:n]
Take(s, n) == SubSeq(s, 1, IF Len(s) < n THEN Len(s) ELSE n)

(***************************************************************************)
(* datetime: a parsed added_at is a date at 00:00:00.  An added_at value   *)
(* is [kind, year, month, day]: kind "iso" is a string datetime.fromisoformat *)
(* parses once its 'Z' is removed, "garbage" one it rejects with ValueError,  *)
(* "none" a missing, null or empty one.                                    *)
(***************************************************************************)
NoAddedAt == [kind |-> "none", year |-> 0, month |-> 0, day |-> 0]

IsoDate(y, m, d) == [kind |-> "iso", year |-> y, month |-> m, day |-> d]

GarbageDate == [kind |-> "garbage", year |-> 0, month |-> 0, day |-> 0]

\* bool(item.get('added_at'))
Truthy(added_at) == added_at.kind # "none"

IsLeap(y) == (y % 4 = 0 /\ y % 100 # 0) \/ y % 400 = 0

DaysInMonth(y, m) == IF m = 2 THEN (IF IsLeap(y) THEN 29 ELSE 28)
                     ELSE IF m \in {4, 6, 9, 11} THEN 30 ELSE 31

RECURSIVE DaysBeforeMonth(_, _)
DaysBeforeMonth(y, m) == IF m = 1 THEN 0
                         ELSE DaysBeforeMonth(y, m - 1) + DaysInMonth(y, m - 1)

\* date.toordinal(): what datetime comparison and subtraction of days work on
ToOrdinal(dt) ==
    LET y == dt.year - 1
    IN  365 * y + (y \div 4) - (y \div 100) + (y \div 400)
        + DaysBeforeMonth(dt.year, dt.month) + dt.day

\* datetime.now(): the clock of the request
Now == IsoDate(2024, 1, 10)

\* datetime.now() - timedelta(days=3*365), as an ordinal
three_years_ago == ToOrdinal(Now) - 3 * 365

(***************************************************************************)
(* _get_season_key, get_sort_key                                           *)
(***************************************************************************)
Winter == <<"W", "i", "n", "t", "e", "r">>
Spring == <<"S", "p", "r", "i", "n", "g">>
Summer == <<"S", "u", "m", "m", "e", "r">>
Autumn == <<"A", "u", "t", "u", "m", "n">>

NoKey == <<>>

\* f"{season} {year}"
SeasonYear(season, year) == season \o <<" ">> \o Str(year)

\* the rollover of January and February forgotten
_get_season_key_no_rollover(dt) ==
    LET month == dt.month
        year == dt.year
    IN  IF month \in {1, 2, 12} THEN SeasonYear(Winter, year)
        ELSE IF month \in {3, 4, 5} THEN SeasonYear(Spring, year)
        ELSE IF month \in {6, 7, 8} THEN SeasonYear(Summer, year)
        ELSE SeasonYear(Autumn, year)

_get_season_key(dt) ==
    LET month == dt.month
        year == dt.year
    IN  IF month \in {1, 2} THEN SeasonYear(Winter, year - 1)
        ELSE IF month \in {3, 4, 5} THEN SeasonYear(Spring, year)
        ELSE IF month \in {6, 7, 8} THEN SeasonYear(Summer, year)
        ELSE IF month \in {9, 10, 11} THEN SeasonYear(Autumn, year)
        ELSE IF month = 12 THEN SeasonYear(Winter, year)
        ELSE NoKey

SeasonOrder == <<Winter, Spring, Summer, Autumn>>

\* ["Winter", "Spring", "Summer", "Autumn"].index(season); 0-based
SeasonIndex(season) == (CHOOSE i \in 1..Len(SeasonOrder) : SeasonOrder[i] = season) - 1

\* (int(year_str), index) for season, year_str = phase_key.split(" ")
get_sort_key(phase_key) ==
    LET parts == Split(phase_key, " ")
    IN  <<IntOf(parts[2]).val, SeasonIndex(parts[1])>>

\* tuple comparison a < b of two sort keys
KeyLess(a, b) == a[1] < b[1] \/ (a[1] = b[1] /\ a[2] < b[2])

\* line 204
sorted_phases(ps) ==
    StableSort(ps, {p \in Pairs(ps) :
                       KeyLess(get_sort_key(ps[p[1]].key), get_sort_key(ps[p[2]].key))})

(***************************************************************************)
(* Payloads of the catalog API.  A track object is                         *)
(* [keys, id, name, artists, album, popularity]; an artist [keys, id,      *)
(* name]; an album [keys, id, images, release_date], images being the      *)
(* list of image URLs; a field whose key is not in keys is not in the dict. *)
(* A saved item is [track, added_at]; a null track is the empty dict.      *)
(***************************************************************************)
Placeholder == "https://placehold.co/128x128/121212/FFFFFF?text=?"

EmptyArtist == [keys |-> {}, id |-> None, name |-> None]

EmptyAlbum == [keys |-> {}, id |-> None, images |-> <<>>, release_date |-> <<>>]

EmptyTrack == [keys |-> {}, id |-> None, name |-> None, artists |-> <<>>,
               album |-> EmptyAlbum, popularity |-> 0]

\* bool(x) of an id, a name or None
TruthyStr(x) == x # None /\ x # ""

(***************************************************************************)
(* _get_ai_phase_details (lines 67-96).  outcome is what the naming        *)
(* collaborator does with the request.  The result is [raised, is_dict,    *)
(* keys, phase_name, phase_summary]: raised names the exception that left  *)
(* the function, "" when it returned.                                      *)
(***************************************************************************)
Outcomes == {"ok", "network_fault", "http_error", "no_candidates", "not_json",
             "incomplete", "non_object"}

\* avg_release_year is round(...) or the string 'N/A' (line 223)
IntValue(n) == [type |-> "int", int |-> n]

NA == [type |-> "str", int |-> 0]

FallbackSummary == "A distinct period in your listening journey."

\* f"Your {period} Era"
FallbackName(period) == <<"Y", "o", "u", "r", " ">> \o period \o <<" ", "E", "r", "a">>

fallback_response(period) ==
    [raised |-> "", is_dict |-> TRUE, keys |-> {"phase_name", "phase_summary"},
     phase_name |-> FallbackName(period), phase_summary |-> FallbackSummary]

\* the JSON object a well-behaved collaborator answers with
GeneratedName == <<"N", "e", "o", "n">>

GeneratedSummary == "A summer of neon nights."

Raised(exc) == [raised |-> exc, is_dict |-> FALSE, keys |-> {},
                phase_name |-> <<>>, phase_summary |-> ""]

\* line 82: avg_release_year > 2010 raises TypeError for a str against an int
EraVibe(avg_release_year) ==
    IF avg_release_year.type # "int" THEN "TypeError"
    ELSE IF avg_release_year.int > 2010 THEN "Modern mainstream"
    ELSE "Nostalgic throwback"

\* line 83
PopularityVibe(avg_popularity) ==
    IF avg_popularity > 60 THEN "Mainstream hits" ELSE "Underground discoveries"

_get_ai_phase_details(phase_characteristics, top_artists, api_key, outcome) ==
    LET fallback == fallback_response(phase_characteristics.period)
    IN  IF ~api_key THEN fallback                                       \* line 70
        ELSE IF EraVibe(phase_characteristics.avg_release_year) = "TypeError"
        THEN Raised("TypeError")                                        \* line 82, outside the try
        ELSE CASE outcome = "ok" ->                                     \* line 93
                    [raised |-> "", is_dict |-> TRUE,
                     keys |-> {"phase_name", "phase_summary"},
                     phase_name |-> GeneratedName, phase_summary |-> GeneratedSummary]
               [] outcome = "incomplete" ->                             \* line 93
                    [raised |-> "", is_dict |-> TRUE, keys |-> {},
                     phase_name |-> <<>>, phase_summary |-> ""]
               [] outcome = "non_object" ->                             \* line 93
                    [raised |-> "", is_dict |-> FALSE, keys |-> {},
                     phase_name |-> <<>>, phase_summary |-> ""]
               [] OTHER -> fallback                                     \* lines 94-96

(***************************************************************************)
(* timeline (lines 139-249), step by step                                  *)
(***************************************************************************)
NoError == [exc |-> "", at |-> ""]

\* the whole library kept, whatever its age
recent_filter_no_window(items) ==
    SelectSeq(items, LAMBDA item : Truthy(item.added_at))

\* lines 151-156
recent_filter(items) ==
    SelectSeq(items, LAMBDA item :
        Truthy(item.added_at) /\ ToOrdinal(item.added_at) > three_years_ago)

\* line 154: datetime.fromisoformat raises ValueError
filter_raises(items) ==
    \E i \in 1..Len(items) : items[i].added_at.kind = "garbage"

RECURSIVE add_weight_once(_, _, _)
\* a weight given once per list, not once per payload
add_weight_once(scores, ids, w) ==
    IF ids = <<>> THEN scores
    ELSE LET id == ids[Len(ids)]
             rest == SubSeq(ids, 1, Len(ids) - 1)
             before == add_weight_once(scores, rest, w)
             old == IF id \in DOMAIN before THEN before[id] ELSE 0
         IN  IF \E i \in 1..Len(rest) : rest[i] = id THEN before
             ELSE [k \in DOMAIN before \cup {id} |-> IF k = id THEN old + w ELSE before[k]]

RECURSIVE add_weight(_, _, _)
\* for t in ids: relevance_scores[t] += w, on a defaultdict(int)
add_weight(scores, ids, w) ==
    IF ids = <<>> THEN scores
    ELSE LET id == ids[1]
             old == IF id \in DOMAIN scores THEN scores[id] ELSE 0
         IN  add_weight([k \in DOMAIN scores \cup {id} |-> IF k = id THEN old + w ELSE scores[k]],
                        Tail(ids), w)

SavedWeight == 1
LongTermWeight == 2
MediumTermWeight == 5
ShortTermWeight == 10

\* the ids line 167 reads: item['track']['id'] of the items with a track
scored_saved(recent) == SelectSeq(recent, LAMBDA item : item.track.keys # {})

IdsOf(tracks) == [i \in 1..Len(tracks) |-> tracks[i].id]

\* lines 167-170: t['id'] raises KeyError when the dict has no 'id'
score_raises(recent, top) ==
    \/ \E i \in 1..Len(recent) : recent[i].track.keys # {} /\ "id" \notin recent[i].track.keys
    \/ \E r \in DOMAIN top : \E i \in 1..Len(top[r]) : "id" \notin top[r][i].keys

\* lines 165-170
score_all(recent, top) ==
    LET s0 == add_weight(<<>>, IdsOf([i \in 1..Len(scored_saved(recent)) |->
                                        scored_saved(recent)[i].track]), SavedWeight)
        s1 == add_weight(s0, IdsOf(top.long_term), LongTermWeight)
        s2 == add_weight(s1, IdsOf(top.medium_term), MediumTermWeight)
    IN  add_weight(s2, IdsOf(top.short_term), ShortTermWeight)

\* line 173
all_track_items(recent, top) ==
    recent \o [i \in 1..Len(top.long_term) |-> [track |-> top.long_term[i], added_at |-> NoAddedAt]]
           \o [i \in 1..Len(top.medium_term) |-> [track |-> top.medium_term[i], added_at |-> NoAddedAt]]
           \o [i \in 1..Len(top.short_term) |-> [track |-> top.short_term[i], added_at |-> NoAddedAt]]

\* lines 178-182 for one item; exc is the exception the lines raise, "" for none
track_info(item, scores) ==
    LET track == item.track
        artists == Get(track, "artists", <<EmptyArtist>>)
        album == Get(track, "album", EmptyAlbum)
        images == Get(album, "images", <<>>)
        year == IntOf(Split(Get(album, "release_date", <<"0">>), "-")[1])
    IN  IF artists = <<>> THEN [exc |-> "IndexError", info |-> <<>>]         \* line 178
        ELSE IF ~year.ok THEN [exc |-> "ValueError", info |-> <<>>]          \* line 182
        ELSE [exc |-> "",
              info |-> [id |-> track.id,
                        name |-> Get(track, "name", "N/A"),
                        artist_id |-> Get(artists[1], "id", None),
                        album_id |-> Get(album, "id", None),
                        artist_name |-> Get(artists[1], "name", "N/A"),
                        popularity |-> Get(track, "popularity", 0),
                        release_year |-> year.val,
                        added_at |-> item.added_at,
                        relevance_score |-> IF track.id \in DOMAIN scores
                                            THEN scores[track.id] ELSE 0,
                        cover_url |-> IF images # <<>> THEN images[1] ELSE Placeholder]]

RECURSIVE normalize_all_last_wins(_, _, _)
\* a later payload of a known id overwrites its record
normalize_all_last_wins(items, infos, scores) ==
    IF items = <<>> THEN [exc |-> "", infos |-> infos]
    ELSE LET track == items[1].track
         IN  IF track.keys = {} \/ ~TruthyStr(Get(track, "id", None))
             THEN normalize_all_last_wins(Tail(items), infos, scores)
             ELSE LET r == track_info(items[1], scores)
                      at == {i \in 1..Len(infos) : infos[i].id = track.id}
                  IN  IF r.exc # "" THEN [exc |-> r.exc, infos |-> infos]
                      ELSE normalize_all_last_wins(Tail(items),
                               IF at = {} THEN Append(infos, r.info)
                               ELSE [i \in 1..Len(infos) |->
                                        IF i \in at THEN r.info ELSE infos[i]],
                               scores)

RECURSIVE normalize_all(_, _, _)
\* lines 175-183: the loop over all_track_items; infos is all_tracks_info so far
normalize_all(items, infos, scores) ==
    IF items = <<>> THEN [exc |-> "", infos |-> infos]
    ELSE LET track == items[1].track
         IN  IF \/ track.keys = {}
                \/ ~TruthyStr(Get(track, "id", None))
                \/ \E i \in 1..Len(infos) : infos[i].id = track.id
             THEN normalize_all(Tail(items), infos, scores)                  \* line 177
             ELSE LET r == track_info(items[1], scores)
                  IN  IF r.exc # "" THEN [exc |-> r.exc, infos |-> infos]
                      ELSE normalize_all(Tail(items), Append(infos, r.info), scores)

\* GET artists?ids=... (lines 47-56): the genres the catalog holds per artist;
\* an artist it cannot resolve is left out of the map
CatalogGenres == [a1 |-> <<"pop", "rock">>, a2 |-> <<"rock">>]

\* lines 183, 185
artist_genres_map(infos) ==
    LET all_artist_ids == {infos[i].artist_id : i \in {j \in 1..Len(infos) :
                                                        TruthyStr(infos[j].artist_id)}}
    IN  [a \in all_artist_ids \cap DOMAIN CatalogGenres |-> CatalogGenres[a]]

RECURSIVE count_genres(_, _)
\* lines 195-196: genres is the phase's defaultdict(int), in insertion order
count_genres(genres, new) ==
    IF new = <<>> THEN genres
    ELSE LET g == new[1]
             at == {i \in 1..Len(genres) : genres[i].genre = g}
         IN  count_genres(IF at = {} THEN Append(genres, [genre |-> g, n |-> 1])
                          ELSE [i \in 1..Len(genres) |->
                                   IF i \in at THEN [genre |-> g, n |-> genres[i].n + 1]
                                   ELSE genres[i]],
                          Tail(new))

\* lines 193-196 for one track: phases[phase_key] on a defaultdict
add_to_phase(ps, key, info, genres_map) ==
    LET new == IF info.artist_id \in DOMAIN genres_map THEN genres_map[info.artist_id] ELSE <<>>
        at == {i \in 1..Len(ps) : ps[i].key = key}
    IN  IF at = {}
        THEN Append(ps, [key |-> key, track_infos |-> <<info>>,
                         genres |-> count_genres(<<>>, new)])
        ELSE [i \in 1..Len(ps) |->
                 IF i \in at
                 THEN [key |-> key, track_infos |-> Append(ps[i].track_infos, info),
                       genres |-> count_genres(ps[i].genres, new)]
                 ELSE ps[i]]

RECURSIVE bucket_all(_, _, _)
\* lines 188-196
bucket_all(infos, ps, genres_map) ==
    IF infos = <<>> THEN ps
    ELSE IF ~Truthy(infos[1].added_at) THEN bucket_all(Tail(infos), ps, genres_map)
    ELSE LET phase_key == _get_season_key(infos[1].added_at)
         IN  IF phase_key = NoKey THEN bucket_all(Tail(infos), ps, genres_map)
             ELSE bucket_all(Tail(infos), add_to_phase(ps, phase_key, infos[1], genres_map),
                             genres_map)

RECURSIVE album_stats(_, _)
\* lines 208-213: stats is the defaultdict, in insertion order
album_stats(tracks, stats) ==
    IF tracks = <<>> THEN stats
    ELSE LET t == tracks[1]
             at == {i \in 1..Len(stats) : stats[i].id = t.album_id}
         IN  IF ~TruthyStr(t.album_id) THEN album_stats(Tail(tracks), stats)
             ELSE album_stats(Tail(tracks),
                    IF at = {}
                    THEN Append(stats, [id |-> t.album_id, count |-> 1,
                                        relevance |-> t.relevance_score, cover |-> t.cover_url])
                    ELSE [i \in 1..Len(stats) |->
                             IF i \in at
                             THEN [id |-> t.album_id, count |-> stats[i].count + 1,
                                   relevance |-> stats[i].relevance + t.relevance_score,
                                   cover |-> t.cover_url]
                             ELSE stats[i]])

\* line 215
album_candidates(tracks) ==
    LET stats == album_stats(tracks, <<>>)
    IN  StableSort(stats, {p \in Pairs(stats) :
                              KeyLess(<<stats[p[2]].count, stats[p[2]].relevance>>,
                                      <<stats[p[1]].count, stats[p[1]].relevance>>)})

\* next((... for c in album_candidates if <test>), None): the first of the
\* indices that pass the test, 0 for None
FirstIndex(hits) == IF hits = {} THEN 0 ELSE Min(hits)

\* line 216: the candidate whose cover is taken, 0 when every candidate is used
cover_candidate(cands, used) ==
    FirstIndex({i \in 1..Len(cands) : cands[i].id \notin used})

cover_of(cands, used) ==
    IF cover_candidate(cands, used) = 0 THEN Placeholder
    ELSE cands[cover_candidate(cands, used)].cover

\* line 217: the id added to used_album_ids, None when nothing is added
used_id(cands, cover_url) ==
    IF cover_url = Placeholder THEN None
    ELSE cands[FirstIndex({i \in 1..Len(cands) : cands[i].cover = cover_url})].id

\* line 219
sorted_tracks(tracks) ==
    StableSort(tracks, {p \in Pairs(tracks) :
                           tracks[p[1]].relevance_score > tracks[p[2]].relevance_score})

\* line 220
top_artists(tracks) ==
    Take(DedupFirst([i \in 1..Len(tracks) |-> sorted_tracks(tracks)[i].artist_name]), 5)

\* lines 222-223
avg_release_year(tracks) ==
    LET valid == SelectSeq([i \in 1..Len(tracks) |-> tracks[i].release_year],
                           LAMBDA y : y > 0)
    IN  IF valid # <<>> THEN IntValue(PyRound(SumSeq(valid), Len(valid))) ELSE NA

\* line 224
avg_popularity(tracks) ==
    IF tracks # <<>>
    THEN PyRound(SumSeq([i \in 1..Len(tracks) |-> tracks[i].popularity]), Len(tracks))
    ELSE 0

\* line 226: sorted(data['genres'], key=data['genres'].get, reverse=True)[:5]
top_genres(genres) ==
    LET sorted == StableSort(genres, {p \in Pairs(genres) : genres[p[1]].n > genres[p[2]].n})
    IN  Take([i \in 1..Len(sorted) |-> sorted[i].genre], 5)

\* lines 231-241; ai is a dict the adapter returned
phase_output(key, data, cover_url, ai) ==
    [phase_period |-> key,
     ai_phase_name |-> Get(ai, "phase_name", FallbackName(key)),
     ai_phase_summary |-> Get(ai, "phase_summary", FallbackSummary),
     track_count |-> Len(data.track_infos),
     top_genres |-> top_genres(data.genres),
     average_popularity |-> avg_popularity(data.track_infos),
     average_release_year |-> avg_release_year(data.track_infos),
     sample_tracks |-> Take([i \in 1..Len(data.track_infos) |->
                               sorted_tracks(data.track_infos)[i].name], 5),
     phase_cover_url |-> cover_url]

\* ai_details before the first call
NoCall == [call |-> [period |-> <<>>, avg_release_year |-> NA, api_key |-> FALSE,
                     outcome |-> "not called"],
           result |-> Raised("")]

\* whether the adapter gets as far as line 90, the request to the collaborator
requests_naming(chars, api_key) ==
    api_key /\ EraVibe(chars.avg_release_year) # "TypeError"

(***************************************************************************)
(* The handler's steps                                                     *)
(***************************************************************************)
inputs == <<saved_items, top_items, gemini_api_key>>

locals == <<recent_saved_tracks, relevance_scores, all_tracks_info, phases, next_phase,
            used_album_ids, chosen_albums, ai_details, final_phases_output>>

\* an exception that is no RequestException leaves the handler (HTTP 500)
Abort(exc, at) == pc' = "error500" /\ err' = [exc |-> exc, at |-> at]

\* lines 148-157
FilterRecent ==
    /\ pc = "start"
    /\ IF filter_raises(saved_items)
       THEN Abort("ValueError", "filter") /\ UNCHANGED recent_saved_tracks
       ELSE /\ recent_saved_tracks' = recent_filter(saved_items)
            /\ pc' = "score" /\ UNCHANGED err
    /\ UNCHANGED <<inputs, relevance_scores, all_tracks_info, phases, next_phase,
                   used_album_ids, chosen_albums, ai_details, final_phases_output>>

\* lines 159-170
Score ==
    /\ pc = "score"
    /\ IF score_raises(recent_saved_tracks, top_items)
       THEN Abort("KeyError", "score") /\ UNCHANGED relevance_scores
       ELSE /\ relevance_scores' = score_all(recent_saved_tracks, top_items)
            /\ pc' = "normalize" /\ UNCHANGED err
    /\ UNCHANGED <<inputs, recent_saved_tracks, all_tracks_info, phases, next_phase,
                   used_album_ids, chosen_albums, ai_details, final_phases_output>>

\* lines 172-183
Normalize ==
    /\ pc = "normalize"
    /\ LET r == normalize_all(all_track_items(recent_saved_tracks, top_items), <<>>,
                              relevance_scores)
       IN  IF r.exc # ""
           THEN Abort(r.exc, "normalize") /\ UNCHANGED all_tracks_info
           ELSE all_tracks_info' = r.infos /\ pc' = "bucket" /\ UNCHANGED err
    /\ UNCHANGED <<inputs, recent_saved_tracks, relevance_scores, phases, next_phase,
                   used_album_ids, chosen_albums, ai_details, final_phases_output>>

\* lines 185-204
Bucket ==
    /\ pc = "bucket"
    /\ phases' = sorted_phases(bucket_all(all_tracks_info, <<>>,
                                          artist_genres_map(all_tracks_info)))
    /\ next_phase' = 1
    /\ pc' = "phases"
    /\ UNCHANGED <<inputs, err, recent_saved_tracks, relevance_scores, all_tracks_info,
                   used_album_ids, chosen_albums, ai_details, final_phases_output>>

\* lines 206-241: one pass of the loop, the naming collaborator answering `outcome`
ProcessPhase(outcome) ==
    /\ pc = "phases"
    /\ next_phase <= Len(phases)
    /\ LET key == phases[next_phase].key
           data == phases[next_phase]
           cands == album_candidates(data.track_infos)
           cover_url == cover_of(cands, used_album_ids)
           added == used_id(cands, cover_url)
           chars == [period |-> key, top_genres |-> top_genres(data.genres),
                     avg_release_year |-> avg_release_year(data.track_infos),
                     avg_popularity |-> avg_popularity(data.track_infos)]
           ai == _get_ai_phase_details(chars, top_artists(data.track_infos),
                                       gemini_api_key, outcome)
       IN  /\ used_album_ids' = IF cover_url # Placeholder
                                THEN used_album_ids \cup {added} ELSE used_album_ids
           /\ chosen_albums' = Append(chosen_albums,
                  [period |-> key, cover |-> cover_url,
                   candidate |-> IF cover_candidate(cands, used_album_ids) = 0 THEN None
                                 ELSE cands[cover_candidate(cands, used_album_ids)].id,
                   added |-> added])
           /\ ai_details' =
                  [call |-> [period |-> key, avg_release_year |-> chars.avg_release_year,
                             api_key |-> gemini_api_key,
                             outcome |-> IF requests_naming(chars, gemini_api_key)
                                         THEN outcome ELSE "no request"],
                   result |-> ai]
           /\ IF ai.raised # ""
              THEN Abort(ai.raised, "naming") /\ UNCHANGED <<final_phases_output, next_phase>>
              ELSE IF ~ai.is_dict                                        \* line 233
              THEN Abort("AttributeError", "output")
                   /\ UNCHANGED <<final_phases_output, next_phase>>
              ELSE /\ final_phases_output' =
                         Append(final_phases_output, phase_output(key, data, cover_url, ai))
                   /\ next_phase' = next_phase + 1
                   /\ UNCHANGED <<pc, err>>
    /\ UNCHANGED <<inputs, recent_saved_tracks, relevance_scores, all_tracks_info, phases>>

\* lines 243-245
Publish ==
    /\ pc = "phases"
    /\ next_phase > Len(phases)
    /\ final_phases_output' = Reverse(final_phases_output)
    /\ pc' = "done"
    /\ UNCHANGED <<inputs, err, recent_saved_tracks, relevance_scores, all_tracks_info,
                   phases, next_phase, used_album_ids, chosen_albums, ai_details>>

\* lines 247-249: a catalog request (lines 148, 160-162, 185) raises
\* requests.exceptions.RequestException; the login page is rendered with an error
SourceUnreachable ==
    /\ pc \in {"start", "score", "bucket"}
    /\ pc' = "login_error"
    /\ err' = [exc |-> "RequestException", at |-> pc]
    /\ UNCHANGED <<inputs, locals>>

Next ==
    \/ FilterRecent
    \/ Score
    \/ Normalize
    \/ Bucket
    \/ \E outcome \in Outcomes : ProcessPhase(outcome)
    \/ Publish
    \/ SourceUnreachable

\* the state when the request arrives, the catalog holding `saved` and `top`
InitWith(Saved, Top, Keys) ==
    /\ saved_items \in Saved
    /\ top_items \in Top
    /\ gemini_api_key \in Keys
    /\ pc = "start"
    /\ err = NoError
    /\ recent_saved_tracks = <<>>
    /\ relevance_scores = <<>>
    /\ all_tracks_info = <<>>
    /\ phases = <<>>
    /\ next_phase = 0
    /\ used_album_ids = {}
    /\ chosen_albums = <<>>
    /\ ai_details = NoCall
    /\ final_phases_output = <<>>

(***************************************************************************)
(* The catalogs the handler is run on                                      *)
(***************************************************************************)
Song(id, name, artist, album_id, cover, release_date, popularity) ==
    [keys |-> {"id", "name", "artists", "album", "popularity"},
     id |-> id, name |-> name,
     artists |-> <<[keys |-> {"id", "name"}, id |-> artist, name |-> artist]>>,
     album |-> [keys |-> {"id", "images", "release_date"}, id |-> album_id,
                images |-> <<cover>>, release_date |-> release_date],
     popularity |-> popularity]

Date2005 == <<"2", "0", "0", "5", "-", "0", "3", "-", "0", "1">>
Date2020 == <<"2", "0", "2", "0", "-", "1", "1", "-", "2", "0">>
Year2015 == <<"2", "0", "1", "5">>
BadDate == <<"u", "n", "k", "n", "o", "w", "n">>

T1 == Song("t1", "One", "a1", "A", "cover-A", Date2005, 70)
T2 == Song("t2", "Two", "a2", "B", "cover-B", Date2020, 40)
T3 == Song("t3", "Three", "a3", "C", "cover-C", Year2015, 55)

\* the same track as T1 under another album of the same recording (relinking)
T1Relinked == Song("t1", "One (Remastered)", "a1", "A2", "cover-A2", Date2020, 65)

\* a local file: no id
NullId == [T1 EXCEPT !.id = None]
MissingId == [T1 EXCEPT !.keys = @ \ {"id"}]
\* only an id
Bare == [EmptyTrack EXCEPT !.keys = {"id"}, !.id = "t4"]
EmptyArtists == [T2 EXCEPT !.artists = <<>>]
NoImages == [T2 EXCEPT !.album.images = <<>>]
NoReleaseDate == [T3 EXCEPT !.album.keys = @ \ {"release_date"}]
BadReleaseDate == [T3 EXCEPT !.album.release_date = BadDate]

Item(track, added_at) == [track |-> track, added_at |-> added_at]

\* the sequences over S of length at most n
SeqsUpTo(S, n) == UNION {[1..k -> S] : k \in 0..n}

TopLists(Long, Medium, Short) ==
    [long_term : Long, medium_term : Medium, short_term : Short]

DistinctTracks(items) ==
    \A i, j \in 1..Len(items) : i # j => items[i].track.id # items[j].track.id

\* malformed payloads and the naming collaborator
MaxSaved == 2

GeneralSaved ==
    SeqsUpTo({Item(t, d) : t \in {T1, Bare, NoReleaseDate, EmptyArtists, NoImages,
                                  BadReleaseDate, NullId, MissingId, EmptyTrack},
                           d \in {IsoDate(2023, 7, 4), IsoDate(2023, 1, 15)}},
             MaxSaved)

Init ==
    InitWith(GeneralSaved,
             TopLists({<<>>}, {<<>>}, SeqsUpTo({T1, MissingId}, 1)),
             BOOLEAN)

Spec == Init /\ [][Next]_vars

\* every month of the last years, one saved track
SeasonYears == 3

SeasonSaved ==
    {<<Item(T1, IsoDate(y, m, d))>> :
        y \in (Now.year - SeasonYears)..(Now.year - 1), m \in 1..12, d \in {1, 10, 15}}

InitSeason == InitWith(SeasonSaved, TopLists({<<>>}, {<<>>}, {<<>>}), {FALSE})

SpecSeason == InitSeason /\ [][Next]_vars

\* saved tracks of several seasons, of long ago, with a broken timestamp
OrderMaxSaved == 2

OrderDates == {IsoDate(2022, 4, 10), IsoDate(2022, 12, 1), IsoDate(2023, 1, 15),
               IsoDate(2023, 4, 10), IsoDate(2019, 5, 15), GarbageDate, NoAddedAt}

OrderSaved == SeqsUpTo({Item(t, d) : t \in {T1, T2}, d \in OrderDates}, OrderMaxSaved)

InitOrder ==
    InitWith(OrderSaved, TopLists({<<>>}, {<<>>}, SeqsUpTo({T2, T3}, 1)), {FALSE})

SpecOrder == InitOrder /\ [][Next]_vars

\* a track in several source lists, and several times in one
ScoreMaxSaved == 2
ScoreMaxTop == 1

ScoreSaved ==
    SeqsUpTo({Item(T1, IsoDate(2023, 7, 4)), Item(T1Relinked, IsoDate(2023, 1, 15)),
              Item(T2, IsoDate(2019, 5, 15)), Item(NullId, IsoDate(2023, 7, 4))},
             ScoreMaxSaved)

InitScore ==
    InitWith(ScoreSaved,
             TopLists(SeqsUpTo({T1, T3}, ScoreMaxTop), SeqsUpTo({T1, T3}, ScoreMaxTop),
                      SeqsUpTo({T1, T3}, ScoreMaxTop)),
             {FALSE})

SpecScore == InitScore /\ [][Next]_vars

\* an album and its deluxe edition, which carry the same artwork URL
CoverMaxSaved == 4

S1 == Song("s1", "Intro", "a1", "A", "cover-A", Date2020, 60)
S2 == Song("s2", "Single", "a1", "A", "cover-A", Date2020, 80)
D1 == Song("d1", "Single (Live)", "a1", "A-deluxe", "cover-A", Date2020, 50)
D2 == Song("d2", "Demo", "a1", "A-deluxe", "cover-A", Date2020, 30)

CoverSaved ==
    {items \in SeqsUpTo({Item(t, d) : t \in {S1, S2, D1, D2},
                                      d \in {IsoDate(2023, 1, 15), IsoDate(2023, 4, 10),
                                             IsoDate(2023, 7, 4)}},
                        CoverMaxSaved) : DistinctTracks(items)}

InitCover ==
    InitWith(CoverSaved, TopLists({<<>>}, {<<>>}, SeqsUpTo({D1}, 1)), {FALSE})

SpecCover == InitCover /\ [][Next]_vars

(***************************************************************************)
(* C2: the naming adapter never lets an error out and always yields a      *)
(* non-empty (name, summary) pair: every call returns, whatever the phase  *)
(* (an unknown average release year included) and whatever the             *)
(* collaborator does; and when the credential is missing or the            *)
(* collaborator fails or answers something malformed or incomplete, the    *)
(* name is "Your {period} Era" and the summary the fixed sentence.         *)
(***************************************************************************)
C2_AdapterAlwaysYieldsNames ==
    ai_details.call.outcome # "not called" =>
        LET r == ai_details.result
            c == ai_details.call
        IN  /\ r.raised = ""
            /\ r.is_dict /\ {"phase_name", "phase_summary"} \subseteq r.keys
            /\ r.phase_name # <<>> /\ r.phase_summary # ""
            /\ c.outcome # "ok" =>
                   /\ r.phase_name = FallbackName(c.period)
                   /\ r.phase_summary = FallbackSummary

(***************************************************************************)
(* C7: a malformed track payload never ends the run: no exception leaves   *)
(* the scoring and normalizing loops, a payload without a track object or  *)
(* without an id gets no record, and a payload with an id gets a record    *)
(* with the defaults for what it lacks (artist "N/A", the placeholder      *)
(* cover, popularity 0, release year 0).                                   *)
(***************************************************************************)
C7_MalformedPayloadNeverAborts ==
    /\ ~(pc = "error500" /\ err.at \in {"score", "normalize"})
    /\ pc \in {"bucket", "phases", "done"} =>
           \A i \in 1..Len(all_tracks_info) :
               LET info == all_tracks_info[i]
               IN  /\ TruthyStr(info.id)
                   /\ info.id = Bare.id =>
                          /\ info.artist_name = "N/A" /\ info.cover_url = Placeholder
                          /\ info.popularity = 0 /\ info.release_year = 0

(***************************************************************************)
(* What the claims speak of                                                *)
(***************************************************************************)
\* the handler is past line 196: the phases are built
Bucketed == pc \in {"phases", "done"}

\* the handler is past line 183: the track records are built
Normalized == pc \in {"bucket", "phases", "done"}

\* the phases (by index) that count track id
PhasesCounting(id) ==
    {i \in 1..Len(phases) :
        \E j \in 1..Len(phases[i].track_infos) : phases[i].track_infos[j].id = id}

\* the key names `season` and the number `year`
KeyNames(key, season, year) ==
    LET parts == Split(key, " ")
    IN  Len(parts) = 2 /\ parts[1] = season /\ IntOf(parts[2]) = [ok |-> TRUE, val |-> year]

\* the season table of the specification, section 4.3
KeyMatchesDate(key, dt) ==
    /\ dt.month \in {1, 2} => KeyNames(key, Winter, dt.year - 1)
    /\ dt.month \in {3, 4, 5} => KeyNames(key, Spring, dt.year)
    /\ dt.month \in {6, 7, 8} => KeyNames(key, Summer, dt.year)
    /\ dt.month \in {9, 10, 11} => KeyNames(key, Autumn, dt.year)
    /\ dt.month = 12 => KeyNames(key, Winter, dt.year)

(***************************************************************************)
(* C6: _get_season_key gives every month 1..12 of every year a key: months *)
(* 1-2 "Winter {year-1}", 3-5 "Spring {year}", 6-8 "Summer {year}", 9-11   *)
(* "Autumn {year}", 12 "Winter {year}"; 2023-01-15 gives "Winter 2022",    *)
(* 2023-12-01 "Winter 2023", 2023-04-10 "Spring 2023".  Stated of every    *)
(* track the handler has bucketed: it is in a phase, under that key.       *)
(***************************************************************************)
C6_SeasonKeyTable ==
    Bucketed =>
        /\ \A k \in 1..Len(all_tracks_info) :
               Truthy(all_tracks_info[k].added_at) =>
                   PhasesCounting(all_tracks_info[k].id) # {}
        /\ \A i \in 1..Len(phases) : \A j \in 1..Len(phases[i].track_infos) :
               LET dt == phases[i].track_infos[j].added_at
                   key == phases[i].key
               IN  /\ KeyMatchesDate(key, dt)
                   /\ dt = IsoDate(2023, 1, 15) =>
                          key = <<"W", "i", "n", "t", "e", "r", " ", "2", "0", "2", "2">>
                   /\ dt = IsoDate(2023, 12, 1) =>
                          key = <<"W", "i", "n", "t", "e", "r", " ", "2", "0", "2", "3">>
                   /\ dt = IsoDate(2023, 4, 10) =>
                          key = <<"S", "p", "r", "i", "n", "g", " ", "2", "0", "2", "3">>

\* a track saved in January sits in the winter phase of the year before
C6_Witness ==
    /\ pc = "done"
    /\ \E i \in 1..Len(phases) :
           /\ phases[i].key = SeasonYear(Winter, 2022)
           /\ phases[i].track_infos[1].added_at = IsoDate(2023, 1, 15)

(***************************************************************************)
(* C3: the published phase list is in reverse-chronological order: of two  *)
(* phases, the one listed first holds only tracks added later than every   *)
(* track of the other, Winter phases (December of Y, January and February  *)
(* of Y+1) included.                                                       *)
(***************************************************************************)
TracksOfPeriod(period) ==
    UNION {{phases[i].track_infos[j] : j \in 1..Len(phases[i].track_infos)} :
              i \in {k \in 1..Len(phases) : phases[k].key = period}}

C3_ReverseChronological ==
    pc = "done" =>
        \A i, j \in 1..Len(final_phases_output) :
            i < j =>
                \A a \in TracksOfPeriod(final_phases_output[i].phase_period) :
                \A b \in TracksOfPeriod(final_phases_output[j].phase_period) :
                    ToOrdinal(a.added_at) > ToOrdinal(b.added_at)

(***************************************************************************)
(* C8: a saved track whose added timestamp cannot be parsed does not end   *)
(* the run: the handler goes on to publish the phases of the other tracks, *)
(* the track is in no phase and keeps its relevance score.                 *)
(***************************************************************************)
UnparseableIds ==
    {saved_items[i].track.id :
        i \in {k \in 1..Len(saved_items) : saved_items[k].added_at.kind = "garbage"}}

C8_UnparseableTimestampAbsorbed ==
    UnparseableIds # {} =>
        /\ pc # "error500"
        /\ pc = "done" =>
               \A id \in UnparseableIds :
                   id \in DOMAIN relevance_scores /\ relevance_scores[id] >= SavedWeight

(***************************************************************************)
(* C5: every library-saved track with an id and a parseable added          *)
(* timestamp is counted in exactly one published phase, the one of the     *)
(* season key of its timestamp, however long ago it was saved; a track     *)
(* with no added timestamp, known from the top lists only, is counted in   *)
(* no phase and still has a relevance score.                               *)
(***************************************************************************)
HasId(track) == track.keys # {} /\ TruthyStr(Get(track, "id", None))

\* track id is counted once, in one phase, whose key is the season of dt, and
\* that phase is published with its track count
CountedOnceUnder(id, dt) ==
    \E i \in 1..Len(phases) :
        /\ PhasesCounting(id) = {i}
        /\ Cardinality({j \in 1..Len(phases[i].track_infos) :
                            phases[i].track_infos[j].id = id}) = 1
        /\ KeyMatchesDate(phases[i].key, dt)
        /\ \E o \in 1..Len(final_phases_output) :
               /\ final_phases_output[o].phase_period = phases[i].key
               /\ final_phases_output[o].track_count = Len(phases[i].track_infos)

TopIds == {top_items[r][i].id : r \in {"long_term"}, i \in 1..Len(top_items.long_term)}
          \cup {top_items[r][i].id : r \in {"medium_term"}, i \in 1..Len(top_items.medium_term)}
          \cup {top_items[r][i].id : r \in {"short_term"}, i \in 1..Len(top_items.short_term)}

\* the saved payloads (by index) of track id with a timestamp
TimedSaves(id) ==
    {k \in 1..Len(saved_items) :
        /\ HasId(saved_items[k].track) /\ saved_items[k].track.id = id
        /\ Truthy(saved_items[k].added_at)}

TopOnlyScored ==
    \A id \in TopIds :
        TimedSaves(id) = {} =>
            /\ PhasesCounting(id) = {}
            /\ \E k \in 1..Len(all_tracks_info) :
                   all_tracks_info[k].id = id /\ all_tracks_info[k].relevance_score > 0

C5_EverySavedTrackInItsPhase ==
    pc = "done" =>
        /\ \A k \in 1..Len(saved_items) :
               (HasId(saved_items[k].track) /\ saved_items[k].added_at.kind = "iso") =>
                   CountedOnceUnder(saved_items[k].track.id, saved_items[k].added_at)
        /\ TopOnlyScored

\* saved later than 3*365 days before the request
SavedInWindow(item) ==
    item.added_at.kind = "iso" /\ ToOrdinal(item.added_at) + 3 * 365 > ToOrdinal(Now)

WindowSaves(id) == {k \in TimedSaves(id) : SavedInWindow(saved_items[k])}

\* C5 as amended: when the phase list is published, a saved track with an id
\* and a parseable timestamp inside the 3*365-day window is counted in exactly
\* one published phase, that of the season key of the timestamp of its first
\* such saved payload; a saved track with no payload inside the window is
\* counted in no phase; a track known from the top lists only is counted in no
\* phase and has a relevance score.
C5_RecentSavedTrackInItsPhase ==
    pc = "done" =>
        /\ \A k \in 1..Len(saved_items) :
               HasId(saved_items[k].track) =>
                   LET id == saved_items[k].track.id
                   IN  IF WindowSaves(id) # {}
                       THEN CountedOnceUnder(id, saved_items[Min(WindowSaves(id))].added_at)
                       ELSE PhasesCounting(id) = {}
        /\ TopOnlyScored

\* a published run with a track saved long ago and left out, a track saved
\* inside the window and counted, and a track known from a top list only
C5_Witness ==
    /\ pc = "done"
    /\ \E k \in 1..Len(saved_items) :
           /\ saved_items[k].added_at.kind = "iso" /\ ~SavedInWindow(saved_items[k])
           /\ PhasesCounting(saved_items[k].track.id) = {}
    /\ \E k \in 1..Len(saved_items) :
           SavedInWindow(saved_items[k]) /\ PhasesCounting(saved_items[k].track.id) # {}
    /\ \E id \in TopIds : TimedSaves(id) = {}

(***************************************************************************)
(* C4: the relevance score of every track record is the sum of the weights *)
(* of the source lists that contain the track (recent-saved 1, long-term   *)
(* 2, medium-term 5, short-term 10), whatever the lists hold and however   *)
(* often.                                                                  *)
(***************************************************************************)
Occurrences(ids, id) == Cardinality({i \in 1..Len(ids) : ids[i] = id})

In(ids, id) == IF Occurrences(ids, id) > 0 THEN 1 ELSE 0

RecentSavedIds ==
    LET with_track == SelectSeq(recent_saved_tracks, LAMBDA item : item.track.keys # {})
    IN  [i \in 1..Len(with_track) |-> with_track[i].track.id]

C4_ScoreIsSumOfListWeights ==
    Normalized =>
        \A k \in 1..Len(all_tracks_info) :
            LET id == all_tracks_info[k].id
            IN  all_tracks_info[k].relevance_score =
                    1 * In(RecentSavedIds, id) + 2 * In(IdsOf(top_items.long_term), id)
                    + 5 * In(IdsOf(top_items.medium_term), id)
                    + 10 * In(IdsOf(top_items.short_term), id)

\* C4 as amended: the score is the sum, over the four source lists, of the
\* list's weight times the number of the list's payloads that carry the
\* track's id.
C4_ScoreIsSumOfAppearanceWeights ==
    Normalized =>
        \A k \in 1..Len(all_tracks_info) :
            LET id == all_tracks_info[k].id
            IN  all_tracks_info[k].relevance_score =
                    1 * Occurrences(RecentSavedIds, id)
                    + 2 * Occurrences(IdsOf(top_items.long_term), id)
                    + 5 * Occurrences(IdsOf(top_items.medium_term), id)
                    + 10 * Occurrences(IdsOf(top_items.short_term), id)

\* a track twice in the recent-saved list and in all three top lists: 2 + 17
C4_Witness ==
    /\ Normalized
    /\ \E k \in 1..Len(all_tracks_info) :
           /\ Occurrences(RecentSavedIds, all_tracks_info[k].id) = 2
           /\ all_tracks_info[k].relevance_score = 19

(***************************************************************************)
(* C9: after normalization there is exactly one track record per distinct  *)
(* track id of the input sources, holding the fields of the first payload  *)
(* seen for the id, saved payloads before top-list payloads; a later       *)
(* payload of the id overwrites nothing.                                   *)
(***************************************************************************)
RecordsOf(id) == {k \in 1..Len(all_tracks_info) : all_tracks_info[k].id = id}

TopPayloads ==
    [i \in 1..Len(top_items.long_term) |-> Item(top_items.long_term[i], NoAddedAt)]
    \o [i \in 1..Len(top_items.medium_term) |-> Item(top_items.medium_term[i], NoAddedAt)]
    \o [i \in 1..Len(top_items.short_term) |-> Item(top_items.short_term[i], NoAddedAt)]

IdsIn(items) == {items[k].track.id : k \in {n \in 1..Len(items) : HasId(items[n].track)}}

\* one record for id, with the fields of the first payload of id in items
OneRecordOfFirst(id, items) ==
    LET first == items[Min({k \in 1..Len(items) :
                               HasId(items[k].track) /\ items[k].track.id = id})]
    IN  /\ Cardinality(RecordsOf(id)) = 1
        /\ \A k \in RecordsOf(id) :
               /\ all_tracks_info[k].name = first.track.name
               /\ all_tracks_info[k].album_id = first.track.album.id
               /\ all_tracks_info[k].cover_url = first.track.album.images[1]
               /\ all_tracks_info[k].popularity = first.track.popularity
               /\ all_tracks_info[k].added_at = first.added_at

\* The input sources of the normalizer are the recent-saved list and the three
\* top lists (line 173); no record has another id.
C9_OneRecordPerSourceId ==
    Normalized =>
        /\ \A id \in IdsIn(recent_saved_tracks \o TopPayloads) :
               OneRecordOfFirst(id, recent_saved_tracks \o TopPayloads)
        /\ \A k \in 1..Len(all_tracks_info) :
               all_tracks_info[k].id \in IdsIn(recent_saved_tracks \o TopPayloads)

\* the relinked payload was saved, the original is in a top list: the record
\* keeps the saved payload's name and timestamp
C9_Witness ==
    /\ Normalized
    /\ Len(recent_saved_tracks) > 0 /\ recent_saved_tracks[1].track = T1Relinked
    /\ \E i \in 1..Len(top_items.short_term) : top_items.short_term[i] = T1
    /\ \E k \in 1..Len(all_tracks_info) :
           /\ all_tracks_info[k].id = "t1"
           /\ all_tracks_info[k].name = T1Relinked.name
           /\ Truthy(all_tracks_info[k].added_at)

(***************************************************************************)
(* C1: within one run no album id is the cover album of two phases: when a *)
(* phase gets a cover that is not the placeholder, the album the cover was *)
(* taken from was the cover album of no phase processed before it, albums  *)
(* that share a cover URL included.                                        *)
(***************************************************************************)
C1_NoAlbumCoversTwoPhases ==
    \A i, j \in 1..Len(chosen_albums) :
        (i < j /\ chosen_albums[j].cover # Placeholder) =>
            chosen_albums[j].candidate # chosen_albums[i].candidate

(***************************************************************************)
(* C10: a phase gets the placeholder only when its album candidates are    *)
(* exhausted: if one of its albums was the cover album of no phase         *)
(* processed before, its cover is that of the highest-ranked such album,   *)
(* by (track count, summed relevance) descending, and the album recorded   *)
(* as used is the album whose cover was chosen.                            *)
(***************************************************************************)
C10_CoverOfBestUnusedAlbum ==
    \A n \in 1..Len(chosen_albums) :
        LET cands == album_candidates(phases[n].track_infos)
            before == {chosen_albums[m].candidate : m \in 1..(n - 1)}
            unused == {i \in 1..Len(cands) : cands[i].id \notin before}
        IN  IF unused = {} THEN chosen_albums[n].cover = Placeholder
            ELSE /\ chosen_albums[n].cover = cands[Min(unused)].cover
                 /\ chosen_albums[n].candidate = cands[Min(unused)].id
                 /\ chosen_albums[n].added = cands[Min(unused)].id

====
